---------------------------- MODULE Spec2Model ----------------------------
(***************************************************************************)
(* Model of the agronomic decision pipelines of smart-farm-backend:        *)
(*   services/indices.py      scene selection and band-math indices        *)
(*   services/irrigation.py   crop coefficient and daily water balance     *)
(*   services/nutreint.py     nutrient stress and nitrogen dose            *)
(*   services/pest_disease.py three weighted risk models and their alerts  *)
(*                                                                         *)
(* numpy float64 values are modelled bit for bit: sign, exponent and       *)
(* 53-bit significand, every operation rounded to the nearest double,     *)
(* with the IEEE special values NaN, +inf and -inf (see Mk/NaN/Inf).       *)
(***************************************************************************)
EXTENDS Integers, Sequences, FiniteSets, TLC

VARIABLES idx, irr, nut, pest, tasks

vars == <<idx, irr, nut, pest, tasks>>

(***************************************************************************)
(* IEEE 754 binary64 arithmetic (numpy float64), round to nearest even     *)
(*                                                                         *)
(* A finite value is (-1)^s * (hi * 2^28 + lo) * 2^e with a 53-bit         *)
(* significand hi * 2^28 + lo (2^52 <= significand < 2^53), or a signed    *)
(* zero (hi = lo = 0, e = 0).  The significand is kept in two limbs of 28  *)
(* bits so that every intermediate result fits a 32-bit integer.           *)
(* Subnormal numbers and overflow to infinity are outside the value range  *)
(* of the pipelines and are not modelled.                                  *)
(***************************************************************************)
P2 == <<1, 2, 4, 8, 16, 32, 64, 128, 256, 512, 1024, 2048, 4096, 8192, 16384,
        32768, 65536, 131072, 262144, 524288, 1048576, 2097152, 4194304,
        8388608, 16777216, 33554432, 67108864, 134217728, 268435456,
        536870912, 1073741824>>

\* 2^k for k in 0..30
Pow2(k) == P2[k + 1]

\* the limb base 2^28 and the half-limb base 2^14
B28 == 268435456

B14 == 16384

RECURSIVE BitLen(_)
\* number of bits of a natural number below 2^31
BitLen(x) == IF x = 0 THEN 0 ELSE 1 + BitLen(x \div 2)

Mk(s, e, hi, lo) == [k |-> "fin", s |-> s, e |-> e, hi |-> hi, lo |-> lo]

Zero(s) == Mk(s, 0, 0, 0)

NaN == [k |-> "nan", s |-> 0, e |-> 0, hi |-> 0, lo |-> 0]

\* sgn = 1 for +inf, sgn = -1 for -inf
Inf(sgn) == [k |-> "inf", s |-> IF sgn < 0 THEN 1 ELSE 0, e |-> 0, hi |-> 0, lo |-> 0]

IsNaN(a) == a.k = "nan"

IsFin(a) == a.k = "fin"

IsZero(a) == a.k = "fin" /\ a.hi = 0 /\ a.lo = 0

\* -1, 0 or 1 (0 for both zeros and for NaN)
FSign(a) == IF a.k = "nan" \/ IsZero(a) THEN 0 ELSE IF a.s = 1 THEN -1 ELSE 1

\* the two-limb number hi * 2^28 + lo shifted right by r bits (0 <= r <= 28)
ShrHi(hi, lo, r) == hi \div Pow2(r)

ShrLo(hi, lo, r) ==
    IF r = 28 THEN hi % B28 ELSE (lo \div Pow2(r)) + (hi % Pow2(r)) * Pow2(28 - r)

\* a quotient (qhi * 2^28 + qlo) * 2^e of 53 bits with the bits dropped
\* below it: round to nearest, ties to even
RoundDropped(s, e, qhi, qlo, dropped, half) ==
    IF ~(dropped > half \/ (dropped = half /\ qlo % 2 = 1)) THEN Mk(s, e, qhi, qlo)
    ELSE IF qlo + 1 < B28 THEN Mk(s, e, qhi, qlo + 1)
    ELSE IF qhi + 1 < Pow2(25) THEN Mk(s, e, qhi + 1, 0)
    ELSE Mk(s, e + 1, Pow2(24), 0)

\* the n-bit number hi * 2^28 + lo (n >= 1) scaled to a 53-bit significand
RoundBits(s, e, hi, lo, n) ==
    IF n <= 25 THEN Mk(s, e - (53 - n), lo * Pow2(25 - n), 0)
    ELSE IF n <= 53
    THEN Mk(s, e - (53 - n), hi * Pow2(53 - n) + lo \div Pow2(n - 25),
            (lo % Pow2(n - 25)) * Pow2(53 - n))
    ELSE RoundDropped(s, e + (n - 53), ShrHi(hi, lo, n - 53), ShrLo(hi, lo, n - 53),
                      lo % Pow2(n - 53), Pow2(n - 54))

\* the value (hi * 2^28 + lo) * 2^e rounded to the nearest float64, ties to
\* even; bit 0 of lo may stand for discarded lower bits (a sticky bit) when
\* the number has at least 55 bits
RoundPack(s, e, hi, lo) ==
    IF hi = 0 /\ lo = 0 THEN Zero(s)
    ELSE RoundBits(s, e, hi, lo, IF hi > 0 THEN 28 + BitLen(hi) ELSE BitLen(lo))

\* float(i) for an integer of at most 31 bits
Num(i) == RoundPack(IF i < 0 THEN 1 ELSE 0, 0, 0, IF i < 0 THEN -i ELSE i)

FNeg(a) == IF a.k = "nan" THEN NaN ELSE [a EXCEPT !.s = 1 - a.s]

\* |a| < |b| for finite non-zero a, b
MagLt(a, b) ==
    \/ a.e < b.e
    \/ a.e = b.e /\ (a.hi < b.hi \/ (a.hi = b.hi /\ a.lo < b.lo))

\* the sum or difference of the aligned significands ahi:alo and bhi:blo
AddLimbs(s, e, same, ahi, alo, bhi, blo) ==
    IF same THEN RoundPack(s, e, ahi + bhi + (alo + blo) \div B28, (alo + blo) % B28)
    ELSE IF alo < blo THEN RoundPack(s, e, ahi - bhi - 1, alo - blo + B28)
    ELSE RoundPack(s, e, ahi - bhi, alo - blo)

\* b's significand * 8 (bhi8:blo8) shifted right by k; a lost bit is kept as
\* sticky in bit 0
AddShifted(s, e, same, ahi, alo, bhi8, blo8, k) ==
    IF k < 28
    THEN AddLimbs(s, e, same, ahi, alo, ShrHi(bhi8, blo8, k),
                  IF blo8 % Pow2(k) # 0 /\ ShrLo(bhi8, blo8, k) % 2 = 0
                  THEN ShrLo(bhi8, blo8, k) + 1 ELSE ShrLo(bhi8, blo8, k))
    ELSE IF k < 56
    THEN AddLimbs(s, e, same, ahi, alo, 0,
                  IF (blo8 # 0 \/ bhi8 % Pow2(k - 28) # 0)
                     /\ (bhi8 \div Pow2(k - 28)) % 2 = 0
                  THEN bhi8 \div Pow2(k - 28) + 1 ELSE bhi8 \div Pow2(k - 28))
    ELSE AddLimbs(s, e, same, ahi, alo, 0, 1)

\* a + b for finite non-zero a, b with |a| >= |b|: the significand of b is
\* aligned to that of a with three extra bits (guard, round, sticky)
AddAligned(a, b) ==
    AddShifted(a.s, a.e - 3, a.s = b.s,
               a.hi * 8 + a.lo \div Pow2(25), (a.lo % Pow2(25)) * 8,
               b.hi * 8 + b.lo \div Pow2(25), (b.lo % Pow2(25)) * 8, a.e - b.e)

FAdd(a, b) ==
    IF a.k = "nan" \/ b.k = "nan" THEN NaN
    ELSE IF a.k = "inf" /\ b.k = "inf" THEN (IF a.s = b.s THEN a ELSE NaN)
    ELSE IF a.k = "inf" THEN a
    ELSE IF b.k = "inf" THEN b
    ELSE IF IsZero(a) /\ IsZero(b) THEN Zero(IF a.s = 1 /\ b.s = 1 THEN 1 ELSE 0)
    ELSE IF IsZero(b) THEN a
    ELSE IF IsZero(a) THEN b
    ELSE IF a.s # b.s /\ a.e = b.e /\ a.hi = b.hi /\ a.lo = b.lo THEN Zero(0)
    ELSE IF MagLt(a, b) THEN AddAligned(b, a) ELSE AddAligned(a, b)

FSub(a, b) == FAdd(a, FNeg(b))

RECURSIVE Carry(_, _, _)
\* the base-2^14 digits of the column sums c[i..], least significant first,
\* followed by the final carry; a negative column borrows from the next
Carry(c, i, carry) ==
    IF i > Len(c) THEN <<carry>>
    ELSE <<(c[i] + carry) % B14>> \o Carry(c, i + 1, (c[i] + carry) \div B14)

\* the 106-bit product p (eight digits of 14 bits) cut to its upper 56 bits
\* with a sticky bit
MulPack(s, e, p) ==
    RoundPack(s, e, p[6] \div 256 + p[7] * 64 + p[8] * 1048576,
              IF (p[1] # 0 \/ p[2] # 0 \/ p[3] # 0 \/ p[4] % 256 # 0)
                 /\ (p[4] \div 256) % 2 = 0
              THEN p[4] \div 256 + p[5] * 64 + (p[6] % 256) * 1048576 + 1
              ELSE p[4] \div 256 + p[5] * 64 + (p[6] % 256) * 1048576)

\* the column sums of the product of two significands in 14-bit limbs
MulLimbs(s, e, a3, a2, a1, a0, b3, b2, b1, b0) ==
    MulPack(s, e, Carry(<<a0 * b0,
                          a1 * b0 + a0 * b1,
                          a2 * b0 + a1 * b1 + a0 * b2,
                          a3 * b0 + a2 * b1 + a1 * b2 + a0 * b3,
                          a3 * b1 + a2 * b2 + a1 * b3,
                          a3 * b2 + a2 * b3,
                          a3 * b3>>, 1, 0))

\* a * b for finite non-zero a, b
MulFinite(a, b) ==
    MulLimbs((a.s + b.s) % 2, a.e + b.e + 50,
             a.hi \div B14, a.hi % B14, a.lo \div B14, a.lo % B14,
             b.hi \div B14, b.hi % B14, b.lo \div B14, b.lo % B14)

FMul(a, b) ==
    IF a.k = "nan" \/ b.k = "nan" THEN NaN
    ELSE IF a.k = "inf" \/ b.k = "inf"
         THEN (IF IsZero(a) \/ IsZero(b) THEN NaN
               ELSE Inf(IF a.s = b.s THEN 1 ELSE -1))
    ELSE IF IsZero(a) \/ IsZero(b) THEN Zero((a.s + b.s) % 2)
    ELSE MulFinite(a, b)

\* one candidate digit q of a long division in base 2^14: the remainder
\* (r[1] r[2] r[3] r[4] 0) - q * (v[1] v[2] v[3] v[4]), digits most
\* significant first, as <<x0, x1, x2, x3, borrow>>; r[1] + borrow is
\* negative when q is too large
DivTry(q, r, v) ==
    Carry(<<0 - q * v[4], r[4] - q * v[3], r[3] - q * v[2], r[2] - q * v[1]>>, 1, 0)

\* the quotient digit estimated from the two leading limbs
DivEst(r, v) ==
    IF (r[1] * B14 + r[2]) \div v[1] > B14 - 1 THEN B14 - 1
    ELSE (r[1] * B14 + r[2]) \div v[1]

\* the digit qh lowered at most twice: <<q, r1, r2, r3, r4>> from the
\* remainders t, u, w of qh, qh - 1 and qh - 2
DivPick(qh, top, t, u, w) ==
    IF top + t[5] >= 0 THEN <<qh, t[4], t[3], t[2], t[1]>>
    ELSE IF top + u[5] >= 0 THEN <<qh - 1, u[4], u[3], u[2], u[1]>>
    ELSE <<qh - 2, w[4], w[3], w[2], w[1]>>

\* the next quotient digit and remainder
DivStep(r, v) ==
    DivPick(DivEst(r, v), r[1], DivTry(DivEst(r, v), r, v),
            DivTry(DivEst(r, v) - 1, r, v), DivTry(DivEst(r, v) - 2, r, v))

RECURSIVE DivDigits(_, _, _, _)
\* the digit and remainder st of one step appended to the digits so far
DivNext(st, v, n, acc) == DivDigits(SubSeq(st, 2, 5), v, n - 1, Append(acc, st[1]))

\* n more quotient digits from remainder r: <<digits, final remainder>>
DivDigits(r, v, n, acc) ==
    IF n = 0 THEN <<acc, r>> ELSE DivNext(DivStep(r, v), v, n, acc)

\* the quotient bit q4 and d = <<<<q3, q2, q1, q0>>, remainder>> packed into
\* 57 bits with a sticky bit
DivPack(s, e, q4, d) ==
    RoundPack(s, e, q4 * B28 + d[1][1] * B14 + d[1][2],
              IF d[2] # <<0, 0, 0, 0>> /\ d[1][4] % 2 = 0
              THEN d[1][3] * B14 + d[1][4] + 1 ELSE d[1][3] * B14 + d[1][4])

\* the significands * 8 in two limbs: the leading quotient bit q4, then four
\* digits of 14 bits by long division of the remainder
DivLimbs(s, e, ahi, alo, bhi, blo, q4) ==
    DivPack(s, e, q4,
            DivDigits(<<(ahi - q4 * bhi - (IF alo < q4 * blo THEN 1 ELSE 0)) \div B14,
                        (ahi - q4 * bhi - (IF alo < q4 * blo THEN 1 ELSE 0)) % B14,
                        ((alo - q4 * blo) % B28) \div B14,
                        ((alo - q4 * blo) % B28) % B14>>,
                      <<bhi \div B14, bhi % B14, blo \div B14, blo % B14>>, 4, <<>>))

\* a / b for finite non-zero a, b: the quotient of the significands to 56 or
\* 57 bits, with a sticky bit
DivFinite(a, b) ==
    DivLimbs((a.s + b.s) % 2, a.e - b.e - 56,
             a.hi * 8 + a.lo \div Pow2(25), (a.lo % Pow2(25)) * 8,
             b.hi * 8 + b.lo \div Pow2(25), (b.lo % Pow2(25)) * 8,
             IF a.hi > b.hi \/ (a.hi = b.hi /\ a.lo >= b.lo) THEN 1 ELSE 0)

\* true division with np.seterr(divide='ignore', invalid='ignore') or the
\* default warn mode: x/0 is +-inf, 0/0 is NaN, nothing is raised
FDiv(a, b) ==
    IF a.k = "nan" \/ b.k = "nan" THEN NaN
    ELSE IF a.k = "inf" /\ b.k = "inf" THEN NaN
    ELSE IF a.k = "inf" THEN Inf(IF a.s = b.s THEN 1 ELSE -1)
    ELSE IF b.k = "inf" THEN Zero((a.s + b.s) % 2)
    ELSE IF IsZero(b) THEN (IF IsZero(a) THEN NaN
                            ELSE Inf(IF a.s = b.s THEN 1 ELSE -1))
    ELSE IF IsZero(a) THEN Zero((a.s + b.s) % 2)
    ELSE DivFinite(a, b)

\* the float64 literal n/d: the double nearest to the decimal fraction
Fin(n, d) == FDiv(Num(n), Num(d))

\* comparisons: any comparison with NaN is False; -0.0 equals 0.0
FLt(a, b) ==
    IF a.k = "nan" \/ b.k = "nan" THEN FALSE
    ELSE IF a.k = "inf" THEN a.s = 1 /\ ~(b.k = "inf" /\ b.s = 1)
    ELSE IF b.k = "inf" THEN b.s = 0
    ELSE IF IsZero(a) THEN ~IsZero(b) /\ b.s = 0
    ELSE IF IsZero(b) THEN a.s = 1
    ELSE IF a.s # b.s THEN a.s = 1
    ELSE IF a.s = 0 THEN MagLt(a, b) ELSE MagLt(b, a)

FEq(a, b) ==
    a.k # "nan" /\ b.k # "nan" /\ (a = b \/ (IsZero(a) /\ IsZero(b)))

FLe(a, b) == FLt(a, b) \/ FEq(a, b)

FGt(a, b) == FLt(b, a)

FGe(a, b) == FLe(b, a)

\* np.maximum / np.minimum propagate NaN
FMaximum(a, b) == IF a.k = "nan" \/ b.k = "nan" THEN NaN
                  ELSE IF FLt(a, b) THEN b ELSE a

FMinimum(a, b) == IF a.k = "nan" \/ b.k = "nan" THEN NaN
                  ELSE IF FLt(b, a) THEN b ELSE a

\* np.clip(x, lo, hi) = minimum(maximum(x, lo), hi)
FClip(x, lo, hi) == FMinimum(FMaximum(x, lo), hi)

\* res += a[i] over the entries i..to of s, in order
RECURSIVE SumFrom(_, _, _, _)
SumFrom(acc, s, i, to) ==
    IF i > to THEN acc ELSE SumFrom(FAdd(acc, s[i]), s, i + 1, to)

\* r[j] += a[i + j] of the unrolled loop: every eighth entry from i up to to
RECURSIVE Lane(_, _, _, _)
Lane(acc, s, i, to) ==
    IF i > to THEN acc ELSE Lane(FAdd(acc, s[i]), s, i + 8, to)

\* ((r[0] + r[1]) + (r[2] + r[3])) + ((r[4] + r[5]) + (r[6] + r[7])) over the
\* m entries that follow offset off, m a multiple of 8; r[j] starts from entry
\* j of the block
Unrolled(s, off, m) ==
    FAdd(FAdd(FAdd(Lane(s[off + 1], s, off + 9, off + m),
                   Lane(s[off + 2], s, off + 10, off + m)),
              FAdd(Lane(s[off + 3], s, off + 11, off + m),
                   Lane(s[off + 4], s, off + 12, off + m))),
         FAdd(FAdd(Lane(s[off + 5], s, off + 13, off + m),
                   Lane(s[off + 6], s, off + 14, off + m)),
              FAdd(Lane(s[off + 7], s, off + 15, off + m),
                   Lane(s[off + 8], s, off + 16, off + m))))

\* n / 2 rounded down to a multiple of the unroll factor
HalfBlock(n) == (n \div 2) - ((n \div 2) % 8)

\* numpy's pairwise summation of the n entries of s that follow offset off:
\* fewer than 8 entries are added from left to right, up to 128 entries go
\* through eight accumulators and the remainder is added in order, longer
\* runs are split in two halves
RECURSIVE pairwise_sum(_, _, _)
pairwise_sum(s, off, n) ==
    IF n < 8 THEN SumFrom(Zero(0), s, off + 1, off + n)
    ELSE IF n <= 128
         THEN SumFrom(Unrolled(s, off, n - (n % 8)), s,
                      off + n - (n % 8) + 1, off + n)
    ELSE FAdd(pairwise_sum(s, off, HalfBlock(n)),
              pairwise_sum(s, off + HalfBlock(n), n - HalfBlock(n)))

\* np.sum of a contiguous float64 raster: the identity 0.0 plus the pairwise
\* sum of the flattened raster
SumSeq(s) == FAdd(Zero(0), pairwise_sum(s, 0, Len(s)))

\* np.nanmean: np.sum of the raster with 0.0 in the place of every NaN,
\* divided by the number of entries that are not NaN; 0.0 / 0 = NaN when none
\* is left
NanMean(s) ==
    FDiv(SumSeq([i \in 1..Len(s) |-> IF IsNaN(s[i]) THEN Zero(0) ELSE s[i]]),
         Num(Cardinality({i \in 1..Len(s) : ~IsNaN(s[i])})))


(***************************************************************************)
(* Pipelines that are not invoked in a behaviour stay idle                 *)
(***************************************************************************)
\* nothing returned yet
NoResult == [pending |-> TRUE]

\* an invocation of irrigation_pipeline: its arguments, its local variables
\* and the exception that ended it, if any
RunIdle == [pc |-> "idle", ndvi |-> <<>>, ndwi |-> <<>>, days_after_sowing |-> 0,
            daily_ET0 |-> <<>>, daily_rain |-> <<>>, kc_map |-> <<>>,
            stress_factor |-> <<>>, irrigation_maps_mm |-> <<>>,
            irrigation_maps_L |-> <<>>, total_irrigation_L_per_day |-> <<>>,
            exc |-> "none"]

\* two invocations of irrigation_pipeline
Runs == {1, 2}

IrrIdle == [r \in Runs |-> RunIdle]

\* an invocation of the index tasks on the worker thread that serves it: the
\* thread's numpy error-handling mode and the eopatch the tasks work on
TaskIdle == [pc |-> "idle", seterr |-> "warn", timestamp |-> <<>>, bands |-> <<>>,
             clm |-> <<>>, indices |-> <<>>, result |-> NoResult]

TasksIdle == [r \in Runs |-> TaskIdle]

\* an invocation of fertilizer_requirement
NutIdle == [pc |-> "idle", ndvi |-> <<>>, ndre |-> <<>>, soil_moisture |-> <<>>,
            das |-> 0, stress_adjusted |-> <<>>, max_nitrogen |-> 0,
            outcome |-> "none", dose |-> <<>>]

\* an invocation of pest_disease_pipeline
PestIdle == [pc |-> "idle", weather_data |-> <<>>, indices_data |-> <<>>,
             crop_stage |-> 0, risks |-> <<>>, result |-> NoResult]

(***************************************************************************)
(* services/indices.py                                                     *)
(***************************************************************************)
\* bounds of the imagery the provider may return
MaxScenes == 3

MaxDay == 4

MaxBand == 4

\* a pixel of eopatch.data['BANDS']: seven reflectances (in tenths) and the
\* scene classification code as the last band
MkPixel(blue, green, red, re, nir, swir1, swir2, scl) ==
    [blue |-> blue, green |-> green, red |-> red, re |-> re, nir |-> nir,
     swir1 |-> swir1, swir2 |-> swir2, scl |-> scl]

\* reflectance stored as tenths -> float
Refl(v) == Fin(v, 10)

cloud_classes == {3, 8, 9, 10, 11}

\* SclCloudMaskTask.execute on one pixel: np.isin(scl_band, cloud_classes)
CloudMaskPixel(px) == px.scl \in cloud_classes

\* SclCloudMaskTask.execute: eopatch.mask['CLM'] for every scene and pixel
SclCloudMaskTask(bands) ==
    [t \in 1..Len(bands) |-> [p \in 1..Len(bands[t]) |-> CloudMaskPixel(bands[t][p])]]

\* mutant: the difference is divided by the first band alone
NormDiffByFirst(a, b) == FDiv(FSub(a, b), a)

\* the normalized difference (a - b) / (a + b) of two bands
NormDiff(a, b) == FDiv(FSub(a, b), FAdd(a, b))

\* CalculateIndicesTask.execute on one pixel
IndicesPixel(px) ==
    LET blue  == Refl(px.blue)
        red   == Refl(px.red)
        re    == Refl(px.re)
        nir   == Refl(px.nir)
        swir1 == Refl(px.swir1)
        ndvi  == NormDiff(nir, red)
        evi   == FMul(Fin(5, 2),
                      FDiv(FSub(nir, red),
                           FAdd(FSub(FAdd(nir, FMul(Num(6), red)),
                                     FMul(Fin(15, 2), blue)), Num(1))))
        savi  == FMul(FDiv(FSub(nir, red), FAdd(FAdd(nir, red), Fin(1, 2))),
                      Fin(3, 2))
        ndre  == NormDiff(nir, re)
        msi   == FDiv(swir1, nir)
        ndwi  == NormDiff(nir, swir1)
        bare_soil_mask == FLt(ndvi, Fin(1, 4))
        bsi   == FDiv(FSub(FAdd(swir1, red), FAdd(nir, blue)),
                      FAdd(FAdd(swir1, red), FAdd(nir, blue)))
        soc0  == FClip(FSub(Fin(9, 4), FMul(Fin(7, 4), bsi)), Num(0), Num(10))
        soc   == IF bare_soil_mask THEN soc0 ELSE NaN
        om    == FMul(soc, Fin(431, 250))
        sm0   == FClip(FDiv(FSub(ndwi, Fin(1, 10)), FSub(Fin(6, 10), Fin(1, 10))),
                       Num(0), Num(1))
        soil_moisture == FAdd(FMul(sm0, FSub(Fin(4, 10), Fin(5, 100))), Fin(5, 100))
    IN  [ndvi |-> ndvi, evi |-> evi, savi |-> savi, ndre |-> ndre, msi |-> msi,
         ndwi |-> ndwi, soc |-> soc, om |-> om, sm |-> soil_moisture]

\* CalculateIndicesTask.execute: eopatch.data['INDICES']
CalculateIndicesTask(bands) ==
    [t \in 1..Len(bands) |-> [p \in 1..Len(bands[t]) |-> IndicesPixel(bands[t][p])]]

\* number of True entries of a boolean raster
CountTrue(m) == Cardinality({p \in 1..Len(m) : m[p]})

\* eopatch.mask['CLM'].mean(axis=(1, 2, 3)) of one scene
CloudCoverage(m) == FDiv(Num(CountTrue(m)), Num(Len(m)))

\* mutant: the last index holding the minimum
ArgMinLast(cov) ==
    CHOOSE i \in 1..Len(cov) :
        /\ \A j \in 1..Len(cov) : FLe(cov[i], cov[j])
        /\ \A j \in (i + 1)..Len(cov) : FLt(cov[i], cov[j])

\* np.argmin: the first index holding the minimum
ArgMin(cov) ==
    CHOOSE i \in 1..Len(cov) :
        /\ \A j \in 1..Len(cov) : FLe(cov[i], cov[j])
        /\ \A j \in 1..(i - 1) : FLt(cov[i], cov[j])

NoImagesMsg == "No satellite images found for given bbox/time_range"

\* the dictionary returned for the selected scene
IndexReport(ts, ind) ==
    [timestamp |-> ts,
     NDVI_mean |-> NanMean([p \in 1..Len(ind) |-> ind[p].ndvi]),
     EVI_mean  |-> NanMean([p \in 1..Len(ind) |-> ind[p].evi]),
     SAVI_mean |-> NanMean([p \in 1..Len(ind) |-> ind[p].savi]),
     NDRE_mean |-> NanMean([p \in 1..Len(ind) |-> ind[p].ndre]),
     MSI_mean  |-> NanMean([p \in 1..Len(ind) |-> ind[p].msi]),
     NDWI_mean |-> NanMean([p \in 1..Len(ind) |-> ind[p].ndwi]),
     SOC_mean  |-> NanMean([p \in 1..Len(ind) |-> ind[p].soc]),
     OM_mean   |-> NanMean([p \in 1..Len(ind) |-> ind[p].om]),
     SoilMoisture_mean |-> NanMean([p \in 1..Len(ind) |-> ind[p].sm])]

ErrorResult(msg) == [error |-> msg]

\* strictly increasing acquisition days of n scenes
TimeStamps(n) ==
    {ts \in [1..n -> 1..MaxDay] : \A i \in 1..n, j \in 1..n : i < j => ts[i] < ts[j]}

\* pixels of a multi-scene series: vegetated and clear (class 4), vegetated
\* under cloud (class 9), dark (all-zero) and clear
SeriesPixels ==
    {MkPixel(1, 1, 1, 2, 4, 2, 1, 4), MkPixel(1, 1, 1, 2, 4, 2, 1, 9),
     MkPixel(0, 0, 0, 0, 0, 0, 0, 4)}

\* two-pixel scenes with cloud coverage 0, 1/2 and 1, with and without a
\* dark pixel
SeriesScenes ==
    {<<MkPixel(1, 1, 1, 2, 4, 2, 1, 4), MkPixel(1, 1, 1, 2, 4, 2, 1, 4)>>,
     <<MkPixel(1, 1, 1, 2, 4, 2, 1, 4), MkPixel(1, 1, 1, 2, 4, 2, 1, 9)>>,
     <<MkPixel(1, 1, 1, 2, 4, 2, 1, 9), MkPixel(1, 1, 1, 2, 4, 2, 1, 9)>>,
     <<MkPixel(0, 0, 0, 0, 0, 0, 0, 4), MkPixel(1, 1, 1, 2, 4, 2, 1, 4)>>,
     <<MkPixel(0, 0, 0, 0, 0, 0, 0, 4), MkPixel(1, 1, 1, 2, 4, 2, 1, 9)>>}

\* single-pixel scenes over the whole band grid
GridScenes ==
    {<<MkPixel(blue, 1, red, re, nir, swir1, 1, 4)>> :
        blue \in {0, 2}, red \in 0..MaxBand, re \in 0..MaxBand,
        nir \in 0..MaxBand, swir1 \in 0..MaxBand}

IdxIdle == [pc |-> "idle", fetched |-> "none", timestamp |-> <<>>, bands |-> <<>>,
            clm |-> <<>>, indices |-> <<>>, best_idx |-> 0, result |-> NoResult]

IdxStart == [IdxIdle EXCEPT !.pc = "start"]

\* str(e) of the exceptions the provider call can raise
\* (an exception constructed without arguments has the empty text)
UpstreamMsgs == {"503 Server Error: Service Unavailable", "Read timed out", ""}

ArgMinEmptyMsg == "attempt to get argmin of an empty sequence"

\* lines 74-86, outside the try block: BBox(bbox=bbox_coords, crs=CRS.WGS84)
\* raises ValueError on malformed coordinates and the exception escapes
Construct ==
    /\ idx.pc = "start"
    /\ \E bbox_ok \in BOOLEAN :
          idx' = [idx EXCEPT !.pc = IF bbox_ok THEN "load" ELSE "raised"]
    /\ UNCHANGED <<irr, nut, pest, tasks>>

\* lines 89-91 after load_data_task.execute returned the eopatch (ts, b):
\* `if not eopatch.timestamp: return {"error": ...}`
AfterLoadNoCheck(ts, b) ==
    [idx EXCEPT !.pc = "mask", !.fetched = "patch", !.timestamp = ts, !.bands = b]

AfterLoad(ts, b) ==
    IF ts = <<>>
    THEN [idx EXCEPT !.pc = "done", !.fetched = "patch", !.timestamp = ts,
                     !.bands = b, !.result = ErrorResult(NoImagesMsg)]
    ELSE [idx EXCEPT !.pc = "mask", !.fetched = "patch", !.timestamp = ts,
                     !.bands = b]

\* load_data_task.execute returns a time series of two-pixel scenes
LoadSeries ==
    /\ idx.pc = "load"
    /\ \E n \in 0..MaxScenes :
          \E ts \in TimeStamps(n), b \in [1..n -> SeriesScenes] :
             idx' = AfterLoad(ts, b)
    /\ UNCHANGED <<irr, nut, pest, tasks>>

\* load_data_task.execute returns one single-pixel scene
LoadGrid ==
    /\ idx.pc = "load"
    /\ \E sc \in GridScenes : idx' = AfterLoad(<<1>>, <<sc>>)
    /\ UNCHANGED <<irr, nut, pest, tasks>>

\* a field of eight pixels, and a field of ten pixels acquired twice, the
\* first time with one pixel under cloud: rasters long enough for np.nanmean
\* to add through its eight accumulators
FieldPatches ==
    {[timestamp |-> <<2>>,
      bands |-> <<<<MkPixel(1, 1, 1, 2, 4, 2, 1, 4), MkPixel(1, 1, 2, 2, 5, 3, 1, 4),
                    MkPixel(1, 1, 3, 2, 6, 2, 1, 4), MkPixel(1, 1, 1, 2, 7, 3, 1, 4),
                    MkPixel(1, 1, 2, 2, 8, 2, 1, 4), MkPixel(1, 1, 3, 2, 9, 3, 1, 4),
                    MkPixel(1, 1, 1, 2, 10, 2, 1, 4), MkPixel(1, 1, 2, 2, 11, 3, 1, 4)>>>>],
     [timestamp |-> <<1, 4>>,
      bands |-> <<<<MkPixel(1, 1, 1, 2, 4, 2, 1, 9), MkPixel(1, 1, 2, 2, 9, 3, 1, 4),
                    MkPixel(2, 1, 3, 2, 11, 3, 1, 4), MkPixel(0, 1, 4, 2, 13, 3, 1, 4),
                    MkPixel(1, 1, 5, 2, 15, 3, 1, 4), MkPixel(2, 1, 6, 2, 17, 3, 1, 4),
                    MkPixel(0, 1, 7, 2, 19, 3, 1, 4), MkPixel(1, 1, 8, 2, 21, 3, 1, 4),
                    MkPixel(2, 1, 9, 2, 23, 3, 1, 4), MkPixel(0, 1, 10, 2, 25, 3, 1, 4)>>,
                  <<MkPixel(0, 1, 1, 2, 7, 3, 1, 4), MkPixel(1, 1, 2, 2, 9, 3, 1, 4),
                    MkPixel(2, 1, 3, 2, 11, 3, 1, 4), MkPixel(0, 1, 4, 2, 13, 3, 1, 4),
                    MkPixel(1, 1, 5, 2, 15, 3, 1, 4), MkPixel(2, 1, 6, 2, 17, 3, 1, 4),
                    MkPixel(0, 1, 7, 2, 19, 3, 1, 4), MkPixel(1, 1, 8, 2, 21, 3, 1, 4),
                    MkPixel(2, 1, 9, 2, 23, 3, 1, 4), MkPixel(0, 1, 10, 2, 25, 3, 1, 4)>>>>]}

\* load_data_task.execute returns scenes of a whole field
LoadField ==
    /\ idx.pc = "load"
    /\ \E f \in FieldPatches : idx' = AfterLoad(f.timestamp, f.bands)
    /\ UNCHANGED <<irr, nut, pest, tasks>>

\* a handler that reports every failure with the no-imagery text
ExceptResultNoImages(msg) == ErrorResult(NoImagesMsg)

\* lines 118-119: `except Exception as e: return {"error": str(e)}`
ExceptResult(msg) == ErrorResult(msg)

\* load_data_task.execute raises: lines 118-119 return {"error": str(e)}
LoadFails ==
    /\ idx.pc = "load"
    /\ \E msg \in UpstreamMsgs :
          idx' = [idx EXCEPT !.pc = "done", !.fetched = "exception",
                             !.result = ExceptResult(msg)]
    /\ UNCHANGED <<irr, nut, pest, tasks>>

\* line 94
CloudMask ==
    /\ idx.pc = "mask"
    /\ idx' = [idx EXCEPT !.pc = "indices", !.clm = SclCloudMaskTask(idx.bands)]
    /\ UNCHANGED <<irr, nut, pest, tasks>>

\* line 95
CalcIndices ==
    /\ idx.pc = "indices"
    /\ idx' = [idx EXCEPT !.pc = "select",
                          !.indices = CalculateIndicesTask(idx.bands)]
    /\ UNCHANGED <<irr, nut, pest, tasks>>

\* lines 98-116; np.argmin of an empty array raises ValueError, which the
\* except clause turns into an error result
Select ==
    /\ idx.pc = "select"
    /\ IF idx.clm = <<>>
       THEN idx' = [idx EXCEPT !.pc = "done", !.result = ErrorResult(ArgMinEmptyMsg)]
       ELSE LET cloud_coverage == [t \in 1..Len(idx.clm) |-> CloudCoverage(idx.clm[t])]
                best_idx == ArgMin(cloud_coverage)
            IN  idx' = [idx EXCEPT !.pc = "done", !.best_idx = best_idx,
                                   !.result = IndexReport(idx.timestamp[best_idx],
                                                          idx.indices[best_idx])]
    /\ UNCHANGED <<irr, nut, pest, tasks>>

InitIndices ==
    /\ idx = IdxStart /\ irr = IrrIdle /\ nut = NutIdle /\ pest = PestIdle
    /\ tasks = TasksIdle

NextIndices ==
    \/ Construct
    \/ LoadSeries
    \/ LoadGrid
    \/ LoadField
    \/ LoadFails
    \/ CloudMask
    \/ CalcIndices
    \/ Select

SpecIndices == InitIndices /\ [][NextIndices]_vars


(***************************************************************************)
(* services/irrigation.py                                                  *)
(***************************************************************************)
MaxDas == 90

MaxNdvi == 9

MaxDays == 2

\* mutant: the bracket bounds are exclusive (das < 20, das < 45, das < 80)
KcParamsExclusive(das) ==
    IF das < 20 THEN [Kc_min |-> Fin(3, 10), Kc_max |-> Fin(4, 10),
                      NDVI_min |-> Fin(1, 10), NDVI_max |-> Fin(3, 10)]
    ELSE IF das < 45 THEN [Kc_min |-> Fin(4, 10), Kc_max |-> Fin(115, 100),
                           NDVI_min |-> Fin(2, 10), NDVI_max |-> Fin(6, 10)]
    ELSE IF das < 80 THEN [Kc_min |-> Fin(115, 100), Kc_max |-> Fin(12, 10),
                           NDVI_min |-> Fin(5, 10), NDVI_max |-> Fin(8, 10)]
    ELSE [Kc_min |-> Fin(7, 10), Kc_max |-> Fin(1, 1),
          NDVI_min |-> Fin(3, 10), NDVI_max |-> Fin(6, 10)]

\* wheat_kc, lines 7-18: the parameters of the bracket of das
KcParams(das) ==
    IF das <= 20 THEN [Kc_min |-> Fin(3, 10), Kc_max |-> Fin(4, 10),
                       NDVI_min |-> Fin(1, 10), NDVI_max |-> Fin(3, 10)]
    ELSE IF das <= 45 THEN [Kc_min |-> Fin(4, 10), Kc_max |-> Fin(115, 100),
                            NDVI_min |-> Fin(2, 10), NDVI_max |-> Fin(6, 10)]
    ELSE IF das <= 80 THEN [Kc_min |-> Fin(115, 100), Kc_max |-> Fin(12, 10),
                            NDVI_min |-> Fin(5, 10), NDVI_max |-> Fin(8, 10)]
    ELSE [Kc_min |-> Fin(7, 10), Kc_max |-> Fin(1, 1),
          NDVI_min |-> Fin(3, 10), NDVI_max |-> Fin(6, 10)]

\* wheat_kc on one pixel, line 20
wheat_kc_pixel(das, ndvi_pixel) ==
    LET b == KcParams(das)
    IN  FAdd(b.Kc_min,
             FMul(FSub(b.Kc_max, b.Kc_min),
                  FClip(FDiv(FSub(ndvi_pixel, b.NDVI_min),
                             FSub(b.NDVI_max, b.NDVI_min)), Num(0), Num(1))))

\* wheat_kc over a raster
wheat_kc(das, ndvi) == [p \in 1..Len(ndvi) |-> wheat_kc_pixel(das, ndvi[p])]

\* mutant: the rainfall surplus is not cut off at zero
DayDepthUnclamped(et0, rain, kc, stress) == FSub(FMul(FMul(et0, kc), stress), rain)

\* lines 43-44 on one pixel: ETc = et0 * Kc * stress; max(ETc - rain, 0)
DayDepth(et0, rain, kc, stress) ==
    FMaximum(FSub(FMul(FMul(et0, kc), stress), rain), Num(0))

\* mutant: the rainfall left over from the day before is credited to the day
DayMapCarryOver(run, i) ==
    LET carry(p) == IF i = 1 THEN Num(0)
                    ELSE FMaximum(FSub(run.daily_rain[i - 1],
                                       FMul(FMul(run.daily_ET0[i - 1], run.kc_map[p]),
                                            run.stress_factor[p])), Num(0))
    IN  [p \in 1..Len(run.kc_map) |->
            DayDepth(run.daily_ET0[i], FAdd(run.daily_rain[i], carry(p)),
                     run.kc_map[p], run.stress_factor[p])]

\* lines 43-44: the depth map of loop iteration i
DayMap(run, i) ==
    [p \in 1..Len(run.kc_map) |->
        DayDepth(run.daily_ET0[i], run.daily_rain[i], run.kc_map[p],
                 run.stress_factor[p])]

\* pixel_size ** 2 with the default pixel_size = 10
PixelArea == FMul(Num(10), Num(10))

\* the arguments of one call
IrrCall(ndvi, ndwi, das, et0, rain) ==
    [RunIdle EXCEPT !.pc = "kc", !.ndvi = ndvi, !.ndwi = ndwi,
                    !.days_after_sowing = das, !.daily_ET0 = et0, !.daily_rain = rain]

Tenths(s) == [p \in 1..Len(s) |-> Fin(s[p], 10)]

Mm(s) == [p \in 1..Len(s) |-> Num(s[p])]

\* a request over the whole DAS range and NDVI grid, one day
IrrCallGrid ==
    /\ irr[1].pc = "idle" /\ irr[2].pc = "idle"
    /\ \E das \in 0..MaxDas, ndvi \in [1..2 -> 0..MaxNdvi] :
          irr' = [irr EXCEPT ![1] = IrrCall(Tenths(ndvi), Tenths(<<10, 5>>), das,
                                            Mm(<<5>>), Mm(<<2>>))]
    /\ UNCHANGED <<idx, nut, pest, tasks>>

\* a request with a horizon of several days; the two lists come from the
\* request body and need not have the same length
IrrCallBalance ==
    /\ irr[1].pc = "idle" /\ irr[2].pc = "idle"
    /\ \E das \in {30, 90}, ndwi \in {<<-5, 5>>, <<5, 15>>, <<15, -5>>},
          n \in 0..MaxDays, m \in 0..MaxDays :
          \E et0 \in [1..n -> {4, 5}], rain \in [1..m -> {0, 2, 6}] :
             irr' = [irr EXCEPT ![1] = IrrCall(Tenths(<<4, 6>>), Tenths(ndwi), das,
                                               Mm(et0), Mm(rain))]
    /\ UNCHANGED <<idx, nut, pest, tasks>>

\* a request whose rainfall is a fraction of a millimetre close to the crop
\* demand: 10 * 0.3 * 0.1 and 10 * 0.3 * 0.8 round to doubles just above
\* 0.3 and 2.4
IrrCallFraction ==
    /\ irr[1].pc = "idle" /\ irr[2].pc = "idle"
    /\ \E ndwi \in {<<1, 8>>, <<8, 1>>}, rain \in {2, 3, 24, 25} :
          irr' = [irr EXCEPT ![1] = IrrCall(Tenths(<<0, 0>>), Tenths(ndwi), 10,
                                            Mm(<<10>>), Tenths(<<rain>>))]
    /\ UNCHANGED <<idx, nut, pest, tasks>>

\* requests over a field of eight and of ten pixels (NDVI and NDWI in
\* hundredths, ET0 and rain in tenths of a millimetre): rasters long enough
\* for np.sum to add through its eight accumulators
FieldRequests ==
    {IrrCall([p \in 1..Len(f.ndvi) |-> Fin(f.ndvi[p], 100)],
             [p \in 1..Len(f.ndwi) |-> Fin(f.ndwi[p], 100)],
             f.das, Tenths(f.et0), Tenths(f.rain)) :
        f \in {[ndvi |-> <<33, 41, 47, 52, 58, 36, 44, 50>>,
                ndwi |-> <<31, 77, 93, 45, 62, 88, 51, 70>>,
                das |-> 30, et0 |-> <<53>>, rain |-> <<7>>],
               [ndvi |-> <<31, 45, 52, 38, 59, 41, 47, 55, 36, 50>>,
                ndwi |-> <<90, 70, 80, 60, 75, 85, 65, 95, 55, 45>>,
                das |-> 40, et0 |-> <<47, 63>>, rain |-> <<0, 11>>]}}

IrrCallField ==
    /\ irr[1].pc = "idle" /\ irr[2].pc = "idle"
    /\ \E f \in FieldRequests : irr' = [irr EXCEPT ![1] = f]
    /\ UNCHANGED <<idx, nut, pest, tasks>>

\* kc_map kept in a module-level variable that every invocation writes
IrrKcShared(r) ==
    /\ irr[r].pc = "kc"
    /\ LET kc == wheat_kc(irr[r].days_after_sowing, irr[r].ndvi)
       IN  irr' = [o \in Runs |->
                     IF o = r
                     THEN [irr[r] EXCEPT !.pc = "loop", !.kc_map = kc,
                              !.stress_factor =
                                  [p \in 1..Len(irr[r].ndwi) |->
                                      FClip(irr[r].ndwi[p], Num(0), Num(1))],
                              !.irrigation_maps_mm = <<>>]
                     ELSE [irr[o] EXCEPT !.kc_map = kc]]
    /\ UNCHANGED <<idx, nut, pest, tasks>>

\* lines 38-41
IrrKc(r) ==
    /\ irr[r].pc = "kc"
    /\ irr' = [irr EXCEPT ![r].pc = "loop",
                  ![r].kc_map = wheat_kc(irr[r].days_after_sowing, irr[r].ndvi),
                  ![r].stress_factor =
                      [p \in 1..Len(irr[r].ndwi) |->
                          FClip(irr[r].ndwi[p], Num(0), Num(1))],
                  ![r].irrigation_maps_mm = <<>>]
    /\ UNCHANGED <<idx, nut, pest, tasks>>

\* lines 42-45: one iteration of the loop over daily_ET0; daily_rain[i] raises
\* IndexError when daily_rain is the shorter list
IrrDay(r) ==
    /\ irr[r].pc = "loop"
    /\ Len(irr[r].irrigation_maps_mm) < Len(irr[r].daily_ET0)
    /\ LET i == Len(irr[r].irrigation_maps_mm) + 1
       IN  IF i > Len(irr[r].daily_rain)
           THEN irr' = [irr EXCEPT ![r].pc = "raised", ![r].exc = "IndexError"]
           ELSE irr' = [irr EXCEPT ![r].irrigation_maps_mm =
                                       Append(irr[r].irrigation_maps_mm,
                                              DayMap(irr[r], i))]
    /\ UNCHANGED <<idx, nut, pest, tasks>>

\* lines 47-53: np.stack raises ValueError on an empty list of maps
IrrFinish(r) ==
    /\ irr[r].pc = "loop"
    /\ Len(irr[r].irrigation_maps_mm) = Len(irr[r].daily_ET0)
    /\ IF irr[r].irrigation_maps_mm = <<>>
       THEN irr' = [irr EXCEPT ![r].pc = "raised", ![r].exc = "ValueError"]
       ELSE LET maps_L == [i \in 1..Len(irr[r].irrigation_maps_mm) |->
                              [p \in 1..Len(irr[r].irrigation_maps_mm[i]) |->
                                  FMul(irr[r].irrigation_maps_mm[i][p], PixelArea)]]
            IN  irr' = [irr EXCEPT ![r].pc = "done",
                           ![r].irrigation_maps_L = maps_L,
                           ![r].total_irrigation_L_per_day =
                               [i \in 1..Len(maps_L) |-> SumSeq(maps_L[i])]]
    /\ UNCHANGED <<idx, nut, pest, tasks>>

InitIrrigation ==
    /\ idx = IdxIdle /\ irr = IrrIdle /\ nut = NutIdle /\ pest = PestIdle
    /\ tasks = TasksIdle

NextIrrigation ==
    \/ IrrCallGrid
    \/ IrrCallBalance
    \/ IrrCallFraction
    \/ IrrCallField
    \/ IrrKc(1)
    \/ IrrDay(1)
    \/ IrrFinish(1)

SpecIrrigation == InitIrrigation /\ [][NextIrrigation]_vars

\* horizons with one rainfall entry per ET0 entry: each day is dry with
\* rain, or has a crop demand with or without rain
Horizons ==
    UNION {[1..n -> {<<0, 2>>, <<5, 0>>, <<5, 2>>}] : n \in 1..MaxDays}

Et0Of(h) == Mm([i \in 1..Len(h) |-> h[i][1]])

RainOf(h) == Mm([i \in 1..Len(h) |-> h[i][2]])

\* two requests over the same rasters and DAS, each with its own horizon
IrrCallPair ==
    /\ irr[1].pc = "idle" /\ irr[2].pc = "idle"
    /\ \E das \in {30, 90}, h1 \in Horizons, h2 \in Horizons :
          irr' = [irr EXCEPT
                     ![1] = IrrCall(Tenths(<<4, 6>>), Tenths(<<10, 5>>), das,
                                    Et0Of(h1), RainOf(h1)),
                     ![2] = IrrCall(Tenths(<<4, 6>>), Tenths(<<10, 5>>), das,
                                    Et0Of(h2), RainOf(h2))]
    /\ UNCHANGED <<idx, nut, pest, tasks>>

NextIrrigationPair ==
    \/ IrrCallPair
    \/ \E r \in Runs : IrrKc(r)
    \/ \E r \in Runs : IrrDay(r)
    \/ \E r \in Runs : IrrFinish(r)

SpecIrrigationPair == InitIrrigation /\ [][NextIrrigationPair]_vars

(***************************************************************************)
(* services/nutreint.py                                                    *)
(***************************************************************************)
MaxPix == 3

MaxNDas == 115

\* insert x into the sequence s, which is in the order of np.sort: ascending,
\* with every NaN after the last number
RECURSIVE Insert(_, _)
Insert(x, s) ==
    IF s = <<>> THEN <<x>>
    ELSE IF IsNaN(x) THEN Append(s, x)
    ELSE IF IsNaN(s[1]) \/ FLe(x, s[1]) THEN <<x>> \o s
    ELSE <<s[1]>> \o Insert(x, Tail(s))

\* the raster flattened and sorted: ascending, NaN entries last
RECURSIVE Sorted(_)
Sorted(s) == IF s = <<>> THEN <<>> ELSE Insert(s[1], Sorted(Tail(s)))

\* _lerp of numpy's quantile code: a + (b - a) * t below one half,
\* b - (b - a) * (1 - t) from there
Lerp(a, b, t) ==
    IF FGe(t, Fin(1, 2)) THEN FSub(b, FMul(FSub(b, a), FSub(Num(1), t)))
    ELSE FAdd(a, FMul(FSub(b, a), t))

\* floor of the virtual index, an index into a sorted raster of n values
PreviousIndex(virtual, n) ==
    CHOOSE k \in 0..(n - 1) :
        /\ FLe(Num(k), virtual)
        /\ k < n - 1 => FLt(virtual, Num(k + 1))

\* the interpolation between the neighbours of the virtual index
LerpAt(a, virtual, previous) ==
    Lerp(a[previous + 1], a[previous + 2], FSub(virtual, Num(previous)))

\* the value of the sorted raster a at the virtual index: NaN as soon as the
\* raster holds a NaN (the last entry after sorting); at or beyond the last
\* index both neighbours are the last entry and gamma is virtual - (-1)
Quantile(a, virtual) ==
    IF IsNaN(a[Len(a)]) THEN NaN
    ELSE IF FGe(virtual, Num(Len(a) - 1))
         THEN Lerp(a[Len(a)], a[Len(a)], FAdd(virtual, Num(1)))
    ELSE LerpAt(a, virtual, PreviousIndex(virtual, Len(a)))

\* np.percentile(index, q), default method "linear" (numpy 1.22 and later):
\* the quantile q / 100 and the virtual index (n - 1) * quantile into the
\* sorted values
Percentile(index, q) ==
    Quantile(Sorted(index), FMul(Num(Len(index) - 1), FDiv(Num(q), Num(100))))

\* line 10: (index - min_val) / (max_val - min_val) clipped to [0, 1]
Rescale(index, min_val, max_val) ==
    [p \in 1..Len(index) |->
        FClip(FDiv(FSub(index[p], min_val), FSub(max_val, min_val)),
              Num(0), Num(1))]

\* normalize_index
normalize_index(index) == Rescale(index, Percentile(index, 2), Percentile(index, 98))

\* lines 24-28: the stress of each pixel from the normalised indices, damped
\* by soil moisture
StressAdjusted(ndvi_norm, ndre_norm, soil_moisture) ==
    [p \in 1..Len(ndvi_norm) |->
        FClip(FMul(FClip(FSub(Num(1), FAdd(FMul(Fin(1, 2), ndvi_norm[p]),
                                           FMul(Fin(1, 2), ndre_norm[p]))),
                         Num(0), Num(1)),
                   FSub(Num(1), FMul(Fin(1, 2), soil_moisture[p]))),
              Num(0), Num(1))]

\* nutrient_stress
nutrient_stress(ndvi, ndre, soil_moisture) ==
    StressAdjusted(normalize_index(ndvi), normalize_index(ndre), soil_moisture)

\* max_nitrogen_wheat
max_nitrogen_wheat(das) ==
    IF das <= 20 THEN 30
    ELSE IF das <= 45 THEN 40
    ELSE IF das <= 80 THEN 35
    ELSE IF das <= 110 THEN 20
    ELSE 0

NutCall(ndvi, ndre, sm, das) ==
    [NutIdle EXCEPT !.pc = "stress", !.ndvi = ndvi, !.ndre = ndre,
                    !.soil_moisture = sm, !.das = das]

\* requests over rasters of 1..MaxPix pixels
NutCallRaster ==
    /\ nut.pc = "idle"
    /\ \E n \in 1..MaxPix, das \in {30, 120}, sm \in {0, 5, 10} :
          \E ndvi \in [1..n -> {2, 5, 8}], ndre \in [1..n -> {1, 4}] :
             nut' = NutCall(Tenths(ndvi), Tenths(ndre),
                            Tenths([p \in 1..n |-> sm]), das)
    /\ UNCHANGED <<idx, irr, pest, tasks>>

\* requests over the whole DAS range, on a varied and on a constant raster
NutCallGrid ==
    /\ nut.pc = "idle"
    /\ \E das \in 0..MaxNDas, ndvi \in {<<2, 8>>, <<5, 5>>} :
          nut' = NutCall(Tenths(ndvi), Tenths(<<1, 4>>), Tenths(<<0, 5>>), das)
    /\ UNCHANGED <<idx, irr, pest, tasks>>

\* requests whose index rasters hold a pixel the index task left undefined
\* (NaN): one in NDVI among five pixels, one in NDRE among two
NutCallGap ==
    /\ nut.pc = "idle"
    /\ \E das \in {30, 120},
          f \in {[ndvi |-> <<Fin(9, 10), Fin(95, 100), NaN, Fin(1, 10), Fin(2, 10)>>,
                  ndre |-> Tenths(<<5, 4, 3, 2, 1>>),
                  soil_moisture |-> Tenths(<<1, 1, 1, 1, 1>>)],
                 [ndvi |-> Tenths(<<2, 8>>),
                  ndre |-> <<NaN, Fin(4, 10)>>,
                  soil_moisture |-> Tenths(<<0, 5>>)]} :
          nut' = NutCall(f.ndvi, f.ndre, f.soil_moisture, das)
    /\ UNCHANGED <<idx, irr, pest, tasks>>

\* line 51
NutStress ==
    /\ nut.pc = "stress"
    /\ nut' = [nut EXCEPT !.pc = "dose",
                  !.stress_adjusted =
                      nutrient_stress(nut.ndvi, nut.ndre, nut.soil_moisture)]
    /\ UNCHANGED <<idx, irr, pest, tasks>>

\* lines 52-53
NutDose ==
    /\ nut.pc = "dose"
    /\ LET max_nitrogen == max_nitrogen_wheat(nut.das)
       IN  nut' = [nut EXCEPT !.pc = "done", !.max_nitrogen = max_nitrogen,
                      !.outcome = "returned",
                      !.dose = [p \in 1..Len(nut.stress_adjusted) |->
                                   FMul(Num(max_nitrogen), nut.stress_adjusted[p])]]
    /\ UNCHANGED <<idx, irr, pest, tasks>>

InitNutrient ==
    /\ idx = IdxIdle /\ irr = IrrIdle /\ nut = NutIdle /\ pest = PestIdle
    /\ tasks = TasksIdle

NextNutrient ==
    \/ NutCallRaster
    \/ NutCallGrid
    \/ NutCallGap
    \/ NutStress
    \/ NutDose

SpecNutrient == InitNutrient /\ [][NextNutrient]_vars

(***************************************************************************)
(* services/pest_disease.py                                                *)
(***************************************************************************)
MaxStage == 99

MaxPestPix == 2

\* np.where(cond, 1.0, 0.0)
Where(cond) == IF cond THEN Num(1) ELSE Num(0)

temp_factor(T) == Where(FGe(T, Num(18)) /\ FLe(T, Num(20)))

rh_factor(RH) == Where(FGt(RH, Num(85)))

rain_factor(RF) == Where(FLt(RF, Num(350)))

ndvi_factor(ndvi_val) ==
    LET ndvi_mean == Fin(55, 100)
        drop == FDiv(FSub(ndvi_mean, ndvi_val), ndvi_mean)
    IN  Where(FGt(drop, Fin(1, 10)))

redsi_factor(redsi_val) == Where(FGt(redsi_val, Fin(25, 100)))

nir_red_edge_factor(nir, red_edge) ==
    Where(FLt(nir, Fin(6, 10)) /\ FLt(red_edge, Fin(45, 100)))

\* np.minimum(sunhrs / max_sunhrs, 1.0) with max_sunhrs = 10
sunshine_factor(sunhrs) == FMinimum(FDiv(sunhrs, Num(10)), Num(1))

crop_stage_factor_general(stage) ==
    IF stage >= 20 /\ stage <= 59 THEN Num(1)
    ELSE IF stage >= 70 /\ stage <= 79 THEN Fin(1, 2) ELSE Num(0)

wheat_blast_temp_factor(temp_c) == Where(FGe(temp_c, Num(25)) /\ FLe(temp_c, Num(30)))

wheat_blast_rh_factor(rh_percent) == Where(FGe(rh_percent, Num(90)))

wheat_blast_leafwetness_factor(leafwetness_hours) ==
    Where(FGt(leafwetness_hours, Num(6)))

wheat_blast_rain_factor(rain_mm) == Where(FGt(rain_mm, Num(5)))

\* the 0.6 bracket opened one stage late
crop_stage_factor_blast_from41(stage) ==
    IF stage >= 50 /\ stage <= 59 THEN Num(1)
    ELSE IF stage >= 60 /\ stage <= 69 THEN Fin(8, 10)
    ELSE IF stage > 40 /\ stage < 50 THEN Fin(6, 10) ELSE Fin(2, 10)

crop_stage_factor_blast(stage) ==
    IF stage >= 50 /\ stage <= 59 THEN Num(1)
    ELSE IF stage >= 60 /\ stage <= 69 THEN Fin(8, 10)
    ELSE IF stage >= 40 /\ stage < 50 THEN Fin(6, 10) ELSE Fin(2, 10)

calculate_blast_risk(temp_c, rh_percent, leafwetness_hours, rain_mm, crop_stage) ==
    FAdd(FAdd(FAdd(FAdd(
        FMul(Fin(30, 100), wheat_blast_temp_factor(temp_c)),
        FMul(Fin(30, 100), wheat_blast_rh_factor(rh_percent))),
        FMul(Fin(15, 100), wheat_blast_leafwetness_factor(leafwetness_hours))),
        FMul(Fin(10, 100), wheat_blast_rain_factor(rain_mm))),
        FMul(Fin(15, 100), crop_stage_factor_blast(crop_stage)))

sunn_pest_temp_factor(temp_c) == Where(FGe(temp_c, Num(12)))

sunn_pest_rain_factor(rain_mm) == Where(FLt(rain_mm, Num(50)))

sunn_pest_relative_humidity_factor(rh_percent) ==
    Where(FGe(rh_percent, Num(40)) /\ FLe(rh_percent, Num(70)))

sunn_pest_crop_stage_factor(stage) == Where(stage >= 50 /\ stage <= 69)

calculate_sunn_pest_risk(temp_c, rain_mm, rh_percent, crop_stage) ==
    FAdd(FAdd(FAdd(
        FMul(Fin(30, 100), sunn_pest_temp_factor(temp_c)),
        FMul(Fin(20, 100), sunn_pest_rain_factor(rain_mm))),
        FMul(Fin(25, 100), sunn_pest_relative_humidity_factor(rh_percent))),
        FMul(Fin(25, 100), sunn_pest_crop_stage_factor(crop_stage)))

\* the aphid (generic pest) score of one pixel, lines 67-76
aphid_risk_pixel(w, ind, crop_stage) ==
    FAdd(FAdd(FAdd(FAdd(FAdd(FAdd(FAdd(
        FMul(Fin(15, 100), temp_factor(w.temperature)),
        FMul(Fin(15, 100), rh_factor(w.relative_humidity))),
        FMul(Fin(10, 100), rain_factor(w.rainfall))),
        FMul(Fin(15, 100), ndvi_factor(ind.ndvi))),
        FMul(Fin(15, 100), redsi_factor(ind.redsi))),
        FMul(Fin(10, 100), nir_red_edge_factor(ind.nir, ind.red_edge))),
        FMul(Fin(5, 100), sunshine_factor(w.sunshine_hours))),
        FMul(Fin(15, 100), crop_stage_factor_general(crop_stage)))

\* mutant: the alert needs a score above the threshold
AlertOfStrict(risk) == FGt(risk, Fin(6, 10))

\* risk >= 0.6
AlertOf(risk) == FGe(risk, Fin(6, 10))

\* numpy broadcasting: element i of an array that is a scalar (one element)
\* or a raster
At(a, i) == IF Len(a) = 1 THEN a[1] ELSE a[i]

\* check_risks_pixelwise: weather_data is a sequence of one record (scalar
\* weather) or of one record per pixel; indices_data has one record per pixel;
\* the aphid score combines both and has the broadcast length of the two
check_risks_pixelwise(weather_data, indices_data, crop_stage) ==
    LET n == IF Len(indices_data) = 1 THEN Len(weather_data) ELSE Len(indices_data)
        aphid_risk == [i \in 1..n |->
                          aphid_risk_pixel(At(weather_data, i), At(indices_data, i),
                                           crop_stage)]
        blast_risk == [i \in 1..Len(weather_data) |->
                          calculate_blast_risk(weather_data[i].temperature,
                              weather_data[i].relative_humidity,
                              weather_data[i].leafwetness_hours,
                              weather_data[i].rainfall, crop_stage)]
        sunn_risk == [i \in 1..Len(weather_data) |->
                         calculate_sunn_pest_risk(weather_data[i].temperature,
                             weather_data[i].rainfall,
                             weather_data[i].relative_humidity, crop_stage)]
    IN  [aphid_risk |-> aphid_risk,
         aphid_alert |-> [i \in 1..Len(aphid_risk) |-> AlertOf(aphid_risk[i])],
         blast_risk |-> blast_risk,
         blast_alert |-> [i \in 1..Len(blast_risk) |-> AlertOf(blast_risk[i])],
         sunn_risk |-> sunn_risk,
         sunn_alert |-> [i \in 1..Len(sunn_risk) |-> AlertOf(sunn_risk[i])]]

Weather(T, RH, RF, sun, lw) ==
    [temperature |-> Num(T), relative_humidity |-> Num(RH), rainfall |-> Num(RF),
     sunshine_hours |-> Num(sun), leafwetness_hours |-> Num(lw)]

\* index values in hundredths
IndexPixel(ndvi, redsi, nir, red_edge) ==
    [ndvi |-> Fin(ndvi, 100), redsi |-> Fin(redsi, 100), nir |-> Fin(nir, 100),
     red_edge |-> Fin(red_edge, 100)]

\* a healthy and a stressed pixel
PestPixels == {IndexPixel(55, 20, 70, 50), IndexPixel(40, 30, 50, 40)}

PestCall(w, ind, stage) ==
    [PestIdle EXCEPT !.pc = "risks", !.weather_data = w, !.indices_data = ind,
                     !.crop_stage = stage]

\* scalar weather on both sides of every threshold, paired with a raster
PestCallWeather ==
    /\ pest.pc = "idle"
    /\ \E T \in {11, 12, 18, 20, 21, 25, 30, 31},
          RH \in {39, 40, 70, 71, 85, 86, 89, 90},
          RF \in {5, 6, 49, 50, 349, 350},
          sun \in {-5, 0, 5, 10, 12},
          lw \in {6, 7},
          stage \in {10, 45, 55, 65, 75} :
          pest' = PestCall(<<Weather(T, RH, RF, sun, lw)>>,
                           <<IndexPixel(55, 20, 70, 50), IndexPixel(40, 30, 50, 40)>>,
                           stage)
    /\ UNCHANGED <<idx, irr, nut, tasks>>

\* every crop stage under blast-favourable scalar weather
PestCallStage ==
    /\ pest.pc = "idle"
    /\ \E stage \in 0..MaxStage :
          pest' = PestCall(<<Weather(27, 92, 6, 8, 8)>>,
                           <<IndexPixel(55, 20, 70, 50), IndexPixel(40, 30, 50, 40)>>,
                           stage)
    /\ UNCHANGED <<idx, irr, nut, tasks>>

\* every crop stage with scalar weather on both sides of each blast threshold
PestCallBlast ==
    /\ pest.pc = "idle"
    /\ \E stage \in 0..MaxStage,
          T \in {24, 25, 30, 31},
          RH \in {89, 90},
          RF \in {5, 6},
          lw \in {6, 7} :
          pest' = PestCall(<<Weather(T, RH, RF, 8, lw)>>,
                           <<IndexPixel(55, 20, 70, 50)>>, stage)
    /\ UNCHANGED <<idx, irr, nut, tasks>>

\* fully rasterized weather: one weather record per pixel
PestCallRaster ==
    /\ pest.pc = "idle"
    /\ \E n \in 1..MaxPestPix :
          \E w \in [1..n -> {Weather(T, RH, 6, 10, 8) : T \in {19, 27}, RH \in {60, 92}}],
             ind \in [1..n -> PestPixels] :
             pest' = PestCall(w, ind, 55)
    /\ UNCHANGED <<idx, irr, nut, tasks>>

\* rasterized weather over an index raster of a single pixel, which numpy
\* broadcasts to the shape of the weather raster
PestCallBroadcast ==
    /\ pest.pc = "idle"
    /\ \E n \in 2..MaxPestPix, px \in PestPixels :
          \E w \in [1..n -> {Weather(T, 60, 6, 10, 8) : T \in {19, 27}}] :
             pest' = PestCall(w, <<px>>, 55)
    /\ UNCHANGED <<idx, irr, nut, tasks>>

\* line 104
PestRisks ==
    /\ pest.pc = "risks"
    /\ pest' = [pest EXCEPT !.pc = "areas",
                   !.risks = check_risks_pixelwise(pest.weather_data,
                                                   pest.indices_data, pest.crop_stage)]
    /\ UNCHANGED <<idx, irr, nut, tasks>>

\* lines 106-119: int(np.sum(alert)) per model and the risk maps
PestAreas ==
    /\ pest.pc = "areas"
    /\ pest' = [pest EXCEPT !.pc = "done",
                   !.result =
                       [aphid_risk_map |-> pest.risks.aphid_risk,
                        blast_risk_map |-> pest.risks.blast_risk,
                        sunn_risk_map |-> pest.risks.sunn_risk,
                        alerts |-> [aphid_area |-> CountTrue(pest.risks.aphid_alert),
                                    blast_area |-> CountTrue(pest.risks.blast_alert),
                                    sunn_area |-> CountTrue(pest.risks.sunn_alert)]]]
    /\ UNCHANGED <<idx, irr, nut, tasks>>

InitPest ==
    /\ idx = IdxIdle /\ irr = IrrIdle /\ nut = NutIdle /\ pest = PestIdle
    /\ tasks = TasksIdle

NextPest ==
    \/ PestCallWeather
    \/ PestCallStage
    \/ PestCallBlast
    \/ PestCallRaster
    \/ PestCallBroadcast
    \/ PestRisks
    \/ PestAreas

SpecPest == InitPest /\ [][NextPest]_vars

(***************************************************************************)
(* Concurrent invocations: two requests served at the same time, each on   *)
(* its own worker thread, their steps interleaved in every order           *)
(***************************************************************************)
\* irrigation_pipeline run from call to return without interruption: the
\* three values returned, or the exception raised: daily_rain[i] raises
\* IndexError in the loop when daily_rain is the shorter list, np.stack
\* raises ValueError when daily_ET0 is empty
irrigation_pipeline(ndvi, ndwi, days_after_sowing, daily_ET0, daily_rain) ==
    IF Len(daily_rain) < Len(daily_ET0) THEN [raised |-> "IndexError"]
    ELSE IF daily_ET0 = <<>> THEN [raised |-> "ValueError"]
    ELSE
    LET run == [IrrCall(ndvi, ndwi, days_after_sowing, daily_ET0, daily_rain)
                   EXCEPT !.kc_map = wheat_kc(days_after_sowing, ndvi),
                          !.stress_factor =
                              [p \in 1..Len(ndwi) |-> FClip(ndwi[p], Num(0), Num(1))]]
        maps_mm == [i \in 1..Len(daily_ET0) |-> DayMap(run, i)]
        maps_L == [i \in 1..Len(maps_mm) |->
                      [p \in 1..Len(maps_mm[i]) |-> FMul(maps_mm[i][p], PixelArea)]]
    IN  [irrigation_maps_mm |-> maps_mm,
         irrigation_maps_L |-> maps_L,
         total_irrigation_L_per_day |-> [i \in 1..Len(maps_L) |-> SumSeq(maps_L[i])]]

\* lines 94-116 of analyze_indices_pipeline run on one eopatch without
\* interruption
IndexTasksAlone(timestamp, bands) ==
    LET clm == SclCloudMaskTask(bands)
        indices == CalculateIndicesTask(bands)
        cloud_coverage == [t \in 1..Len(clm) |-> CloudCoverage(clm[t])]
        best_idx == ArgMin(cloud_coverage)
    IN  IndexReport(timestamp[best_idx], indices[best_idx])

\* two requests, each over its own rasters, DAS and horizon
IrrCallOwn ==
    /\ \A r \in Runs : irr[r].pc = "idle" /\ tasks[r].pc = "idle"
    /\ \E das \in {<<30, 90>>, <<90, 30>>},
          h1 \in {h \in Horizons : Len(h) = 1}, h2 \in Horizons :
          irr' = [irr EXCEPT
                     ![1] = IrrCall(Tenths(<<4, 6>>), Tenths(<<10, 5>>), das[1],
                                    Et0Of(h1), RainOf(h1)),
                     ![2] = IrrCall(Tenths(<<2, 8>>), Tenths(<<3, 12>>), das[2],
                                    Et0Of(h2), RainOf(h2))]
    /\ UNCHANGED <<idx, nut, pest, tasks>>

\* two requests over fields of eight and of ten pixels; the second request
\* may come with a rainfall list one day short of its ET0 list
IrrCallOwnField ==
    /\ \A r \in Runs : irr[r].pc = "idle" /\ tasks[r].pc = "idle"
    /\ \E f \in FieldRequests, g \in FieldRequests, short \in 0..1 :
          /\ Len(f.ndvi) < Len(g.ndvi)
          /\ irr' = [irr EXCEPT
                        ![1] = f,
                        ![2] = [g EXCEPT !.daily_rain =
                                   SubSeq(g.daily_rain, 1, Len(g.daily_rain) - short)]]
    /\ UNCHANGED <<idx, nut, pest, tasks>>

\* the eopatches a request may load: one or two single-pixel scenes, or the
\* scenes of a whole field
OwnPatches ==
    UNION {[1..n -> [1..1 -> SeriesPixels]] : n \in 1..2}
        \cup {f.bands : f \in FieldPatches}

\* numpy's handling of divide/invalid on a thread: "warn" by default,
\* "ignore" once the thread has run CalculateIndicesTask.execute (line 28)
ErrModes == {"warn", "ignore"}

\* line 89 returned a non-empty eopatch to the invocation on worker thread r
TaskCall(r) ==
    /\ tasks[r].pc = "idle"
    /\ \A o \in Runs : irr[o].pc = "idle"
    /\ \E b \in OwnPatches, mode \in ErrModes :
          tasks' = [tasks EXCEPT ![r] =
                       [TaskIdle EXCEPT !.pc = "mask", !.seterr = mode,
                                        !.timestamp = [t \in 1..Len(b) |-> t],
                                        !.bands = b]]
    /\ UNCHANGED <<idx, irr, nut, pest>>

\* line 94, SclCloudMaskTask.execute: adds mask['CLM'] to its own eopatch
TaskMask(r) ==
    /\ tasks[r].pc = "mask"
    /\ tasks' = [tasks EXCEPT ![r].pc = "indices",
                               ![r].clm = SclCloudMaskTask(tasks[r].bands)]
    /\ UNCHANGED <<idx, irr, nut, pest>>

\* line 95, CalculateIndicesTask.execute: np.seterr sets the mode of the
\* calling thread; under "warn" and under "ignore" a division by zero
\* yields the same inf/nan value; adds data['INDICES'] to its own eopatch
TaskIndices(r) ==
    /\ tasks[r].pc = "indices"
    /\ tasks' = [tasks EXCEPT ![r].pc = "select", ![r].seterr = "ignore",
                               ![r].indices = CalculateIndicesTask(tasks[r].bands)]
    /\ UNCHANGED <<idx, irr, nut, pest>>

\* lines 98-116
TaskSelect(r) ==
    /\ tasks[r].pc = "select"
    /\ LET cloud_coverage ==
               [t \in 1..Len(tasks[r].clm) |-> CloudCoverage(tasks[r].clm[t])]
           best_idx == ArgMin(cloud_coverage)
       IN  tasks' = [tasks EXCEPT ![r].pc = "done",
                        ![r].result = IndexReport(tasks[r].timestamp[best_idx],
                                                  tasks[r].indices[best_idx])]
    /\ UNCHANGED <<idx, irr, nut, pest>>

InitConcurrent ==
    /\ idx = IdxIdle /\ irr = IrrIdle /\ nut = NutIdle /\ pest = PestIdle
    /\ tasks = TasksIdle

NextConcurrent ==
    \/ IrrCallOwn
    \/ IrrCallOwnField
    \/ \E r \in Runs : IrrKc(r)
    \/ \E r \in Runs : IrrDay(r)
    \/ \E r \in Runs : IrrFinish(r)
    \/ \E r \in Runs : TaskCall(r)
    \/ \E r \in Runs : TaskMask(r)
    \/ \E r \in Runs : TaskIndices(r)
    \/ \E r \in Runs : TaskSelect(r)

SpecConcurrent == InitConcurrent /\ [][NextConcurrent]_vars

(***************************************************************************)
(* Claims about services/indices.py, checked under SpecIndices             *)
(***************************************************************************)
IndexKeys == {"timestamp", "NDVI_mean", "EVI_mean", "SAVI_mean", "NDRE_mean",
              "MSI_mean", "NDWI_mean", "SOC_mean", "OM_mean", "SoilMoisture_mean"}

\* the provider answered with an eopatch whose timestamp list is empty
EmptyFetch == idx.fetched = "patch" /\ idx.timestamp = <<>>

\* C1: when the imagery provider returns zero scenes the pipeline has
\* returned a structured error result that carries no timestamp and no index
\* mean, and no exception has escaped to the caller.
C1_EmptySceneListIsError ==
    EmptyFetch =>
        /\ idx.pc = "done"
        /\ DOMAIN idx.result = {"error"}
        /\ idx.result.error = NoImagesMsg
        /\ DOMAIN idx.result \cap IndexKeys = {}

C1_Witness == EmptyFetch /\ idx.pc = "done" /\ "error" \in DOMAIN idx.result

\* number of pixels of a scene whose classification code is an obstruction
Obstructed(scene) ==
    Cardinality({p \in 1..Len(scene) : scene[p].scl \in {3, 8, 9, 10, 11}})

\* obstruction fraction of scene i is at most / below that of scene j
FracLe(b, i, j) == Obstructed(b[i]) * Len(b[j]) <= Obstructed(b[j]) * Len(b[i])

FracLt(b, i, j) == Obstructed(b[i]) * Len(b[j]) < Obstructed(b[j]) * Len(b[i])

\* scene k has the minimal obstruction fraction and is the earliest such scene
LeastObstructedEarliest(k) ==
    /\ \A j \in 1..Len(idx.bands) : FracLe(idx.bands, k, j)
    /\ \A j \in 1..Len(idx.bands) :
          (j # k /\ FracLe(idx.bands, j, k)) => idx.timestamp[k] < idx.timestamp[j]

\* the report carries the timestamp and the index means of scene k
ReportOfScene(k) ==
    /\ DOMAIN idx.result = IndexKeys
    /\ idx.result.timestamp = idx.timestamp[k]
    /\ idx.result = IndexReport(idx.timestamp[k],
                                [p \in 1..Len(idx.bands[k]) |-> IndicesPixel(idx.bands[k][p])])

\* C2: for every non-empty time-ordered scene list the selected scene has the
\* minimal mean obstruction fraction, is the earliest among the scenes tied at
\* the minimum, and the returned timestamp and index values are its own.
C2_LeastCloudyEarliestScene ==
    (idx.pc = "done" /\ idx.fetched = "patch" /\ idx.timestamp # <<>>) =>
        /\ idx.best_idx \in 1..Len(idx.bands)
        /\ LeastObstructedEarliest(idx.best_idx)
        /\ ReportOfScene(idx.best_idx)

\* three scenes, the first more obstructed than the two tied at the minimum
C2_Witness ==
    /\ idx.pc = "done"
    /\ Len(idx.bands) = 3
    /\ FracLt(idx.bands, 2, 1)
    /\ FracLe(idx.bands, 2, 3) /\ FracLe(idx.bands, 3, 2)
    /\ idx.best_idx = 2
    /\ idx.result.timestamp = idx.timestamp[2]

\* v is undefined when the band sum is zero, else a value in [-1, 1]
NormDiffInRange(v, bandsum) ==
    /\ IsNaN(v) <=> bandsum = 0
    /\ ~IsNaN(v) => (IsFin(v) /\ FLe(Num(-1), v) /\ FLe(v, Num(1)))

\* C10: for every pixel NDVI, NDRE and NDWI are undefined (NaN) exactly when
\* NIR plus the partner band is 0 and otherwise lie in [-1, 1]; the zero
\* denominator raises nothing and yields no defined value outside [-1, 1].
C10_NormalizedDifferenceRange ==
    idx.pc \in {"select", "done"} /\ idx.fetched = "patch" =>
        \A t \in 1..Len(idx.indices) : \A p \in 1..Len(idx.indices[t]) :
            LET px == idx.bands[t][p]
                ind == idx.indices[t][p]
            IN  /\ NormDiffInRange(ind.ndvi, px.nir + px.red)
                /\ NormDiffInRange(ind.ndre, px.nir + px.re)
                /\ NormDiffInRange(ind.ndwi, px.nir + px.swir1)

\* a pixel with NIR = Red = 0 whose NDVI is undefined while NDRE is defined,
\* and the pipeline still returned index means
C10_Witness ==
    /\ idx.pc = "done"
    /\ Len(idx.indices) = 1
    /\ idx.bands[1][1].nir = 0 /\ idx.bands[1][1].red = 0 /\ idx.bands[1][1].re = 4
    /\ IsNaN(idx.indices[1][1].ndvi)
    /\ idx.indices[1][1].ndre = Num(-1)
    /\ IsNaN(idx.result.NDVI_mean)


(***************************************************************************)
(* Claims about services/irrigation.py                                     *)
(***************************************************************************)
\* clip(NDWI, 0, 1) written out
StressOf(ndwi) == IF FLt(ndwi, Num(0)) THEN Num(0)
                  ELSE IF FGt(ndwi, Num(1)) THEN Num(1) ELSE ndwi

\* ET0[i] * Kc * stress of pixel p on day i of run r
EtcOf(r, i, p) ==
    FMul(FMul(irr[r].daily_ET0[i], irr[r].kc_map[p]), StressOf(irr[r].ndwi[p]))

\* C3 (SpecIrrigation): for every day i and pixel the irrigation depth is
\* >= 0, it is exactly 0 whenever daily_rain[i] >= ET0[i]*Kc*stress with
\* stress = clip(NDWI, 0, 1), and otherwise it is ET0[i]*Kc*stress - rain[i].
\* ET0[i]*Kc*stress is the float64 product the code computes (EtcOf).
C3_DepthNonNegative ==
    \A i \in 1..Len(irr[1].irrigation_maps_mm) :
        \A p \in 1..Len(irr[1].irrigation_maps_mm[i]) :
            LET d == irr[1].irrigation_maps_mm[i][p]
                etc == EtcOf(1, i, p)
                rain == irr[1].daily_rain[i]
            IN  /\ FGe(d, Num(0))
                /\ FGe(rain, etc) => d = Num(0)
                /\ FLt(rain, etc) => d = FSub(etc, rain)

\* a finished run with a day and pixel whose rainfall exceeds a positive ETc
\* (depth 0) and a day and pixel with a positive depth
C3_Witness ==
    /\ irr[1].pc = "done"
    /\ \E i \in 1..Len(irr[1].irrigation_maps_mm) : \E p \in 1..2 :
          /\ FGt(EtcOf(1, i, p), Num(0))
          /\ FGt(irr[1].daily_rain[i], EtcOf(1, i, p))
          /\ irr[1].irrigation_maps_mm[i][p] = Num(0)
    /\ \E i \in 1..Len(irr[1].irrigation_maps_mm) : \E p \in 1..2 :
          FGt(irr[1].irrigation_maps_mm[i][p], Num(0))

SameRasters ==
    /\ irr[1].ndvi = irr[2].ndvi
    /\ irr[1].ndwi = irr[2].ndwi
    /\ irr[1].days_after_sowing = irr[2].days_after_sowing

\* the two runs have the same ET0 and rainfall on day i
AgreeAtDay(i) ==
    /\ i <= Len(irr[1].daily_ET0) /\ i <= Len(irr[2].daily_ET0)
    /\ irr[1].daily_ET0[i] = irr[2].daily_ET0[i]
    /\ irr[1].daily_rain[i] = irr[2].daily_rain[i]

\* C4 (SpecIrrigationPair): two runs with the same NDVI, NDWI and DAS whose
\* ET0 and rainfall agree at day i produce the same day-i depth map whatever
\* the other days hold, and each output has one depth map per entry of
\* daily_ET0, in order.
C4_MemorylessAcrossDays ==
    (irr[1].pc = "done" /\ irr[2].pc = "done" /\ SameRasters) =>
        /\ \A r \in Runs :
              /\ Len(irr[r].irrigation_maps_mm) = Len(irr[r].daily_ET0)
              /\ Len(irr[r].irrigation_maps_L) = Len(irr[r].daily_ET0)
              /\ Len(irr[r].total_irrigation_L_per_day) = Len(irr[r].daily_ET0)
        /\ \A i \in 1..MaxDays :
              AgreeAtDay(i) =>
                  /\ irr[1].irrigation_maps_mm[i] = irr[2].irrigation_maps_mm[i]
                  /\ irr[1].irrigation_maps_L[i] = irr[2].irrigation_maps_L[i]

\* run 1 has a rainfall surplus on day 1, run 2 has none, both agree on
\* day 2 and need the same positive depth there
C4_Witness ==
    /\ irr[1].pc = "done" /\ irr[2].pc = "done"
    /\ Len(irr[1].daily_ET0) = 2 /\ Len(irr[2].daily_ET0) = 2
    /\ FGt(irr[1].daily_rain[1], EtcOf(1, 1, 1))
    /\ FLt(irr[2].daily_rain[1], EtcOf(2, 1, 1))
    /\ AgreeAtDay(2)
    /\ FGt(irr[1].irrigation_maps_mm[2][1], Num(0))
    /\ irr[1].irrigation_maps_mm[2] = irr[2].irrigation_maps_mm[2]

\* the brackets as the claim states them: DAS range (upper bound inclusive)
\* with the bracket's Kc and NDVI ranges in hundredths and tenths
ClaimBrackets ==
    <<[lo |-> -1000, hi |-> 20, kmin |-> 30, kmax |-> 40, nmin |-> 1, nmax |-> 3],
      [lo |-> 21, hi |-> 45, kmin |-> 40, kmax |-> 115, nmin |-> 2, nmax |-> 6],
      [lo |-> 46, hi |-> 80, kmin |-> 115, kmax |-> 120, nmin |-> 5, nmax |-> 8],
      [lo |-> 81, hi |-> 1000, kmin |-> 70, kmax |-> 100, nmin |-> 3, nmax |-> 6]>>

BracketsOf(das) ==
    {b \in 1..4 : ClaimBrackets[b].lo <= das /\ das <= ClaimBrackets[b].hi}

\* Kc_min + (Kc_max - Kc_min) * clip((NDVI - NDVI_min)/(NDVI_max - NDVI_min))
\* with the parameters of bracket b
BracketKc(b, ndvi) ==
    LET B == ClaimBrackets[b]
        t == FDiv(FSub(ndvi, Fin(B.nmin, 10)),
                  FSub(Fin(B.nmax, 10), Fin(B.nmin, 10)))
        c == IF FLt(t, Num(0)) THEN Num(0) ELSE IF FGt(t, Num(1)) THEN Num(1) ELSE t
    IN  FAdd(Fin(B.kmin, 100),
             FMul(FSub(Fin(B.kmax, 100), Fin(B.kmin, 100)), c))

\* C5 (SpecIrrigation): for every DAS wheat_kc applies the parameters of
\* exactly one bracket, upper bounds inclusive (<= 20, 21..45, 46..80, 81+);
\* for that DAS the Kc is non-decreasing in NDVI and lies within
\* [Kc_min, Kc_max] of the bracket; DAS = 30, NDVI = 0.4 gives Kc = 0.775.
C5_KcBrackets ==
    irr[1].pc \in {"loop", "done", "raised"} =>
        LET das == irr[1].days_after_sowing
            kc == irr[1].kc_map
            ndvi == irr[1].ndvi
        IN  /\ Cardinality(BracketsOf(das)) = 1
            /\ \A b \in BracketsOf(das) : \A p \in 1..Len(kc) :
                  /\ kc[p] = BracketKc(b, ndvi[p])
                  /\ FLe(Fin(ClaimBrackets[b].kmin, 100), kc[p])
                  /\ FLe(kc[p], Fin(ClaimBrackets[b].kmax, 100))
            /\ \A p \in 1..Len(kc), q \in 1..Len(kc) :
                  FLe(ndvi[p], ndvi[q]) => FLe(kc[p], kc[q])
            /\ \A p \in 1..Len(kc) :
                  (das = 30 /\ ndvi[p] = Fin(4, 10)) => kc[p] = Fin(775, 1000)

\* DAS on the inclusive upper bound of the first bracket with one pixel below
\* and one above the NDVI range
C5_Witness ==
    /\ irr[1].pc = "loop"
    /\ irr[1].days_after_sowing = 20
    /\ irr[1].ndvi = Tenths(<<0, 9>>)
    /\ irr[1].kc_map = <<Fin(3, 10), Fin(4, 10)>>


(***************************************************************************)
(* Claims about services/nutreint.py, checked under SpecNutrient           *)
(***************************************************************************)
\* the nitrogen cap as the claim states it
ClaimCap(das) ==
    IF das <= 20 THEN 30 ELSE IF das <= 45 THEN 40 ELSE IF das <= 80 THEN 35
    ELSE IF das <= 110 THEN 20 ELSE 0

\* the 2nd and the 98th percentile of the raster coincide (NaN percentiles,
\* those of a raster with a NaN pixel, equal nothing)
RangeCollapses(index) == FEq(Percentile(index, 2), Percentile(index, 98))

Degenerate == RangeCollapses(nut.ndvi) \/ RangeCollapses(nut.ndre)

\* no pixel of the raster is NaN
Defined(index) == \A p \in 1..Len(index) : ~IsNaN(index[p])

\* C6: for every DAS and every pixel the returned nitrogen dose lies in
\* [0, cap(DAS)], and it is 0 for every pixel whenever DAS > 110.
C6_DoseWithinCap ==
    nut.pc = "done" =>
        \A p \in 1..Len(nut.dose) :
            /\ FLe(Num(0), nut.dose[p])
            /\ FLe(nut.dose[p], Num(ClaimCap(nut.das)))
            /\ nut.das > 110 => nut.dose[p] = Num(0)

\* the part of C6 the code satisfies: the dose is within [0, cap(DAS)] and 0
\* after day 110 on every raster without NaN pixels whose normalization
\* ranges do not collapse
C6_NonDegenerateDoseWithinCap ==
    (/\ nut.pc = "done"
     /\ Defined(nut.ndvi) /\ Defined(nut.ndre) /\ Defined(nut.soil_moisture)
     /\ ~Degenerate) =>
        \A p \in 1..Len(nut.dose) :
            /\ FLe(Num(0), nut.dose[p])
            /\ FLe(nut.dose[p], Num(ClaimCap(nut.das)))
            /\ nut.das > 110 => nut.dose[p] = Num(0)

\* C7: when the percentile range of NDVI or NDRE collapses to zero the
\* nutrient model reports a degenerate-normalization failure instead of
\* dividing by the zero range and returning a stress or dose value.
C7_DegenerateRangeReported ==
    (nut.pc = "done" /\ Degenerate) =>
        /\ nut.outcome # "returned"
        /\ nut.dose = <<>>


(***************************************************************************)
(* Claims about services/pest_disease.py, checked under SpecPest           *)
(***************************************************************************)
InUnit(x) == FLe(Num(0), x) /\ FLe(x, Num(1))

RisksComputed == pest.pc \in {"areas", "done"}

\* C8: for all weather inputs, index inputs and crop stages each of the three
\* risk scores (generic pest/aphid, wheat blast, sunn pest) lies in [0, 1].
C8_ScoresInUnitInterval ==
    RisksComputed =>
        /\ \A i \in 1..Len(pest.risks.aphid_risk) : InUnit(pest.risks.aphid_risk[i])
        /\ \A i \in 1..Len(pest.risks.blast_risk) : InUnit(pest.risks.blast_risk[i])
        /\ \A i \in 1..Len(pest.risks.sunn_risk) : InUnit(pest.risks.sunn_risk[i])

\* the part of C8 the code satisfies: with sunshine hours >= 0 everywhere the
\* three scores lie in [0, 1]
C8_ScoresInUnitIntervalNonNegativeSunshine ==
    (RisksComputed /\ \A i \in 1..Len(pest.weather_data) :
                         FGe(pest.weather_data[i].sunshine_hours, Num(0))) =>
        /\ \A i \in 1..Len(pest.risks.aphid_risk) : InUnit(pest.risks.aphid_risk[i])
        /\ \A i \in 1..Len(pest.risks.blast_risk) : InUnit(pest.risks.blast_risk[i])
        /\ \A i \in 1..Len(pest.risks.sunn_risk) : InUnit(pest.risks.sunn_risk[i])

\* score s is at or above the double nearest 0.6
AtLeastSixTenths(s) == IsFin(s) /\ ~FLt(s, Fin(6, 10))

AlertMatches(risk, alert) ==
    /\ Len(alert) = Len(risk)
    /\ \A i \in 1..Len(risk) : alert[i] <=> AtLeastSixTenths(risk[i])

AreaOf(risk) == Cardinality({i \in 1..Len(risk) : AtLeastSixTenths(risk[i])})

\* C9: for each of the three risk models and every pixel the alert is true
\* iff the score is >= 0.6 (a score of exactly 0.6 raises the alert), and
\* the alert area reported by pest_disease_pipeline for each model equals
\* the number of pixels whose score is >= 0.6.
C9_AlertIffAtLeastThreshold ==
    /\ RisksComputed =>
          /\ AlertMatches(pest.risks.aphid_risk, pest.risks.aphid_alert)
          /\ AlertMatches(pest.risks.blast_risk, pest.risks.blast_alert)
          /\ AlertMatches(pest.risks.sunn_risk, pest.risks.sunn_alert)
    /\ pest.pc = "done" =>
          /\ pest.result.alerts.aphid_area = AreaOf(pest.result.aphid_risk_map)
          /\ pest.result.alerts.blast_area = AreaOf(pest.result.blast_risk_map)
          /\ pest.result.alerts.sunn_area = AreaOf(pest.result.sunn_risk_map)

\* a finished run whose blast score is exactly 0.6 and raises the alert,
\* with an aphid score below the threshold on some pixel
C9_Witness ==
    /\ pest.pc = "done"
    /\ pest.risks.blast_risk[1] = Fin(6, 10)
    /\ pest.risks.blast_alert[1]
    /\ pest.result.alerts.blast_area = 1
    /\ \E i \in 1..Len(pest.risks.aphid_risk) : ~pest.risks.aphid_alert[i]

(***************************************************************************)
(* Failure results of services/indices.py, checked under SpecIndices       *)
(***************************************************************************)
\* the provider call raised before any eopatch was returned
UpstreamFailed == idx.fetched = "exception"

\* the test a caller applies to a returned result to recognise "no imagery"
SaysNoImagery(result) ==
    "error" \in DOMAIN result /\ result.error = NoImagesMsg

\* C11: when the imagery provider call fails, the pipeline has returned a
\* failure result {"error": str(e)} that carries the provider's text, is a
\* different value from the no-imagery result returned for an empty scene
\* list, and is told apart from it by the caller's test on the error text:
\* the test answers "no imagery" exactly for an empty scene list.  Neither
\* result carries a timestamp or an index mean.
C11_UpstreamFailureDistinctFromNoData ==
    /\ UpstreamFailed =>
          /\ idx.pc = "done"
          /\ DOMAIN idx.result = {"error"}
          /\ idx.result.error \in UpstreamMsgs
          /\ idx.result # ErrorResult(NoImagesMsg)
          /\ ~SaysNoImagery(idx.result)
    /\ EmptyFetch => idx.pc = "done" /\ SaysNoImagery(idx.result)
    /\ idx.pc = "done" => (SaysNoImagery(idx.result) <=> EmptyFetch)
    /\ (UpstreamFailed \/ EmptyFetch) => DOMAIN idx.result \cap IndexKeys = {}

C11_Witness ==
    /\ UpstreamFailed
    /\ idx.pc = "done"
    /\ idx.result = [error |-> "Read timed out"]

(***************************************************************************)
(* Wheat-blast score of services/pest_disease.py, checked under SpecPest   *)
(***************************************************************************)
Ind(b) == IF b THEN 1 ELSE 0

\* m(stage) of the claim
ClaimStage(stage) ==
    IF stage \in 50..59 THEN Num(1)
    ELSE IF stage \in 60..69 THEN Fin(8, 10)
    ELSE IF stage \in 40..49 THEN Fin(6, 10) ELSE Fin(2, 10)

BlastTempOk(w) == FLe(Num(25), w.temperature) /\ FLe(w.temperature, Num(30))

BlastRhOk(w) == FGe(w.relative_humidity, Num(90))

BlastWetOk(w) == FGt(w.leafwetness_hours, Num(6))

BlastRainOk(w) == FGt(w.rainfall, Num(5))

\* the claimed weighted sum, evaluated in float64 from left to right
ClaimBlastScore(w, stage) ==
    FAdd(FAdd(FAdd(FAdd(
        FMul(Fin(30, 100), Num(Ind(BlastTempOk(w)))),
        FMul(Fin(30, 100), Num(Ind(BlastRhOk(w))))),
        FMul(Fin(15, 100), Num(Ind(BlastWetOk(w))))),
        FMul(Fin(10, 100), Num(Ind(BlastRainOk(w))))),
        FMul(Fin(15, 100), ClaimStage(stage)))

\* C13: for every integer crop stage and every weather input the wheat-blast
\* score equals 0.30*[25<=temp<=30] + 0.30*[RH>=90] + 0.15*[leaf wetness>6]
\* + 0.10*[rain>5] + 0.15*m(stage), with m(stage) = 1.0 for 50..59, 0.8 for
\* 60..69, 0.6 for 40..49 and 0.2 otherwise; when all five factors are
\* satisfied at a stage in 50..59 the score is 1.0 and the alert is true.
C13_BlastScoreFormula ==
    RisksComputed =>
        \A i \in 1..Len(pest.weather_data) :
            LET w == pest.weather_data[i]
            IN  /\ pest.risks.blast_risk[i] = ClaimBlastScore(w, pest.crop_stage)
                /\ (/\ BlastTempOk(w) /\ BlastRhOk(w) /\ BlastWetOk(w)
                    /\ BlastRainOk(w) /\ pest.crop_stage \in 50..59)
                      => /\ pest.risks.blast_risk[i] = Num(1)
                         /\ pest.risks.blast_alert[i]

\* the worked example: temp=27, RH=92, leaf wetness=8, rain=6, stage=55
C13_Witness ==
    /\ RisksComputed
    /\ pest.crop_stage = 55
    /\ pest.weather_data = <<Weather(27, 92, 6, 8, 8)>>
    /\ pest.risks.blast_risk = <<Num(1)>>
    /\ pest.risks.blast_alert = <<TRUE>>

(***************************************************************************)
(* Concurrent invocations, checked under SpecConcurrent                    *)
(***************************************************************************)
\* the arguments an invocation was called with
RunInputs(run) ==
    <<run.ndvi, run.ndwi, run.days_after_sowing, run.daily_ET0, run.daily_rain>>

TaskInputs(task) == <<task.timestamp, task.bands>>

\* how irrigation_pipeline ends for its caller: the three values returned or
\* the exception raised
RunReturn(run) ==
    IF run.pc = "raised" THEN [raised |-> run.exc]
    ELSE [irrigation_maps_mm |-> run.irrigation_maps_mm,
          irrigation_maps_L |-> run.irrigation_maps_L,
          total_irrigation_L_per_day |-> run.total_irrigation_L_per_day]

\* invocation r returns what it returns when run alone on its inputs
ReturnsAsAlone(r) ==
    /\ irr'[r].pc \in {"done", "raised"} =>
          RunReturn(irr'[r]) =
              irrigation_pipeline(irr'[r].ndvi, irr'[r].ndwi,
                                  irr'[r].days_after_sowing, irr'[r].daily_ET0,
                                  irr'[r].daily_rain)
    /\ tasks'[r].pc = "done" =>
          tasks'[r].result = IndexTasksAlone(tasks'[r].timestamp, tasks'[r].bands)

\* no step changes the arguments of an invocation in progress
InputsKept(r) ==
    /\ irr[r].pc # "idle" => RunInputs(irr'[r]) = RunInputs(irr[r])
    /\ tasks[r].pc # "idle" => TaskInputs(tasks'[r]) = TaskInputs(tasks[r])

\* a step of invocation r leaves the state of the other invocation, the
\* error-handling mode of its thread included, as it was
OthersUntouched(r) ==
    \A o \in Runs \ {r} :
        /\ (irr[r].pc # "idle" /\ irr'[r] # irr[r]) => irr'[o] = irr[o]
        /\ tasks'[r] # tasks[r] => tasks'[o] = tasks[o]

\* C12: under every interleaving of the steps of two invocations running on
\* their own inputs, each invocation returns exactly the result it returns
\* when run alone; no step changes the state of the other invocation and no
\* step changes the input arrays an invocation was called with.
C12_InterleavingKeepsResults ==
    [][\A r \in Runs : ReturnsAsAlone(r) /\ InputsKept(r) /\ OthersUntouched(r)]_vars

\* one invocation has returned while the other, called with other rasters,
\* is halfway through its loop over the days
C12_Witness ==
    /\ irr[1].pc = "done"
    /\ irr[2].pc = "loop"
    /\ Len(irr[2].daily_ET0) = 2
    /\ Len(irr[2].irrigation_maps_mm) = 1
    /\ irr[1].kc_map # irr[2].kc_map
    /\ irr[1].total_irrigation_L_per_day # <<>>

=============================================================================
